---- MODULE Spec2Model ----
(***************************************************************************)
(* Wastewater GIS API v2 (src/app.py): a FastAPI service in which every    *)
(* endpoint is gated by get_current_user and wraps one database statement  *)
(* (or a file write followed by one statement) in try/except Exception.    *)
(*                                                                         *)
(* One request is in flight at a time.  A request moves                    *)
(*   idle -> auth -> run -> (opened -> written ->) done                    *)
(* and the database tables and the uploads/ directory persist between      *)
(* requests.  Every database call either succeeds or raises; the choice is *)
(* an input of the step that makes the call.                               *)
(*                                                                         *)
(* The aggregate operation of the service's specification, which composes  *)
(* four of these sections in one call, is not part of src/app.py; it is     *)
(* modelled from its contract, around the section code of src/app.py.      *)
(***************************************************************************)
EXTENDS Integers, Sequences, FiniteSets, TLC

\* ------------------------------------------------------------------------
\* Bounds of the model
\* ------------------------------------------------------------------------
\* rows of waste_water_manhole, gid 1..NumManholes
NumManholes == 2
\* rows of waste_water_pipeline, gid 1..NumPipes
NumPipes == 1

\* ------------------------------------------------------------------------
\* Values
\* ------------------------------------------------------------------------
\* SQL NULL / Python None in a text column
NULL == "NULL"
\* Python None where a geometry is expected
NoneGeom == [kind |-> "None"]
\* Python None where a plus code is expected (a code is a sequence of characters)
NoneCode == <<"None">>

\* Point(x, y): x = longitude, y = latitude, both in units of 1/8000 degree, the
\* resolution of a 10-digit plus code
Point(x, y) == [kind |-> "Point", x |-> x, y |-> y]
LineString(pts) == [kind |-> "LineString", pts |-> pts]

Abs(n) == IF n < 0 THEN -n ELSE n
Min(a, b) == IF a < b THEN a ELSE b
Max(a, b) == IF a > b THEN a ELSE b

\* ------------------------------------------------------------------------
\* olc.encode(latitude, longitude) at the default code length 10
\* ------------------------------------------------------------------------
PAIR_PRECISION == 8000
ENCODING_BASE == 20
LATITUDE_MAX == 90
LONGITUDE_MAX == 180
CODE_ALPHABET == <<"2", "3", "4", "5", "6", "7", "8", "9", "C", "F",
                   "G", "H", "J", "M", "P", "Q", "R", "V", "W", "X">>

clipLatitude(lat) == Min(LATITUDE_MAX * PAIR_PRECISION, Max(-LATITUDE_MAX * PAIR_PRECISION, lat))

RECURSIVE normalizeLongitude(_)
normalizeLongitude(lng) ==
    IF lng < -LONGITUDE_MAX * PAIR_PRECISION THEN normalizeLongitude(lng + 360 * PAIR_PRECISION)
    ELSE IF lng >= LONGITUDE_MAX * PAIR_PRECISION THEN normalizeLongitude(lng - 360 * PAIR_PRECISION)
    ELSE lng

\* the pair section: five (latitude digit, longitude digit) pairs, most
\* significant first
RECURSIVE pairs(_, _, _)
pairs(latVal, lngVal, n) ==
    IF n = 0 THEN <<>>
    ELSE pairs(latVal \div ENCODING_BASE, lngVal \div ENCODING_BASE, n - 1)
         \o <<CODE_ALPHABET[(latVal % ENCODING_BASE) + 1],
              CODE_ALPHABET[(lngVal % ENCODING_BASE) + 1]>>

encode(latitude, longitude) ==
    LET lat0 == clipLatitude(latitude)
        lat == IF lat0 = LATITUDE_MAX * PAIR_PRECISION THEN lat0 - 1 ELSE lat0
        lng == normalizeLongitude(longitude)
        code == pairs(lat + LATITUDE_MAX * PAIR_PRECISION, lng + LONGITUDE_MAX * PAIR_PRECISION, 5)
    IN  SubSeq(code, 1, 8) \o <<"+">> \o SubSeq(code, 9, 10)

\* def get_plus_code(geom)
get_plus_code(geom) ==
    IF geom = NoneGeom THEN NoneCode ELSE encode(geom.y, geom.x)

\* ------------------------------------------------------------------------
\* line.interpolate(0.5, normalized=True) for a LineString whose segments are
\* axis-parallel and whose length is even, so that every length is an integer
\* ------------------------------------------------------------------------
SegLen(p, q) == Abs(q.x - p.x) + Abs(q.y - p.y)

RECURSIVE PathLen(_)
PathLen(pts) ==
    IF Len(pts) < 2 THEN 0 ELSE SegLen(pts[1], pts[2]) + PathLen(Tail(pts))

Sign(n) == IF n > 0 THEN 1 ELSE IF n < 0 THEN -1 ELSE 0

RECURSIVE PointAt(_, _)
PointAt(pts, d) ==
    IF Len(pts) < 2 THEN Point(pts[1].x, pts[1].y)
    ELSE LET l == SegLen(pts[1], pts[2])
         IN  IF d <= l
             THEN Point(pts[1].x + d * Sign(pts[2].x - pts[1].x),
                        pts[1].y + d * Sign(pts[2].y - pts[1].y))
             ELSE PointAt(Tail(pts), d - l)

interpolate_half(line) == PointAt(line.pts, PathLen(line.pts) \div 2)

\* ------------------------------------------------------------------------
\* Strings that the code transforms are sequences of characters
\* ------------------------------------------------------------------------
LOWER == <<"a", "h", "m", "p">>
UPPER == <<"A", "H", "M", "P">>

\* str.upper() on one character: a lower-case letter maps to its capital, any
\* other character to itself
upper_char(c) ==
    IF \E i \in 1..Len(LOWER) : LOWER[i] = c
    THEN UPPER[CHOOSE i \in 1..Len(LOWER) : LOWER[i] = c]
    ELSE c

\* asset_type stored as it was sent
upper_forgotten(s) == s

\* str.upper()
upper(s) == [i \in 1..Len(s) |-> upper_char(s[i])]

\* UPLOAD_DIR = "uploads"
UPLOAD_DIR == <<"u", "p", "l", "o", "a", "d", "s">>

\* os.path.join(UPLOAD_DIR, f"{asset_id}_{file.filename}")
filepath_of(asset_id, filename) == UPLOAD_DIR \o <<"/">> \o asset_id \o <<"_">> \o filename

\* NULL in waste_water_manhole.image_path (a path is never the empty string)
NULL_PATH == <<>>

DIGITS == <<"0", "1", "2", "3", "4", "5", "6", "7", "8", "9">>
IsDigit(c) == \E i \in 1..Len(DIGITS) : DIGITS[i] = c
DigitVal(c) == (CHOOSE i \in 1..Len(DIGITS) : DIGITS[i] = c) - 1

\* the cast PostgreSQL applies to the text parameter compared with the integer
\* column gid: -1 stands for "invalid input syntax for type integer"
RECURSIVE PgInt(_)
PgInt(s) ==
    IF Len(s) = 0 THEN -1
    ELSE IF ~IsDigit(s[Len(s)]) THEN -1
    ELSE IF Len(s) = 1 THEN DigitVal(s[1])
    ELSE LET hi == PgInt(SubSeq(s, 1, Len(s) - 1))
         IN  IF hi < 0 THEN -1 ELSE hi * 10 + DigitVal(s[Len(s)])

\* ------------------------------------------------------------------------
\* State
\* ------------------------------------------------------------------------
VARIABLES
    users,          \* table users: set of rows [email]
    manholes,       \* table waste_water_manhole: sequence of rows
    pipes,          \* table waste_water_pipeline: sequence of rows
    maintenance,    \* table maintenance: sequence of rows
    favorites,      \* table favorites: sequence of rows, in insertion order
    files,          \* the file system: path -> bytes
    pc,             \* position of the request in flight
    req,            \* the request in flight
    current_user,   \* what get_current_user returned for it
    resp,           \* the response sent for it
    pre,            \* history: manholes, favorites and files when it arrived
    nvalidate,      \* history: runs of get_current_user for it
    nquery,         \* history: statements its operation handed to the engine
    uout,           \* history: how get_current_user's SELECT ended for it
    qout,           \* history: how its operation's statement ended
    written,        \* history: paths upload_image has finished writing
    added,          \* history: the calls add_favorite has answered with success
    tried           \* history: how each section's query of an aggregate call ended

vars == <<users, manholes, pipes, maintenance, favorites, files, pc, req,
          current_user, resp, pre, nvalidate, nquery, uout, qout, written, added, tried>>

tables == <<users, manholes, pipes, maintenance, favorites>>
\* no statement was executed
NotRun == "not run"

\* ------------------------------------------------------------------------
\* Failures of the database: the exception's message, str(e)
\* ------------------------------------------------------------------------
OK == "ok"
DbErrors == {"connection refused"}
DbOutcomes == {OK} \cup DbErrors
InvalidInt == "invalid input syntax for type integer"
NoInterpolate == "'NoneType' object has no attribute 'interpolate'"
DiskErrors == {"No space left on device"}

\* raise HTTPException(status_code=..., detail=...)
HTTPException(status_code, detail) == [code |-> status_code, detail |-> detail]
NoResp == [code |-> 0]

\* ------------------------------------------------------------------------
\* Bearer tokens
\* ------------------------------------------------------------------------
Alice == "alice@example.com"
Ghost == "ghost@example.com"

Token(sig, exp, sub) == [sig |-> sig, exp |-> exp, sub |-> sub]
GoodToken == Token("good", "future", Alice)
GarbageToken == Token("bad", "future", Alice)
ExpiredToken == Token("good", "past", Alice)
NoSubToken == Token("good", "future", NULL)
GhostToken == Token("good", "future", Ghost)
Tokens == {GoodToken, GarbageToken, ExpiredToken, NoSubToken, GhostToken}

JWTError == [error |-> "JWTError"]
\* jwt.decode(token, SECRET_KEY, algorithms=[ALGORITHM]): a bad signature or
\* an exp in the past raises JWTError, otherwise the payload
jwt_decode(token) ==
    IF token.sig # "good" \/ token.exp = "past" THEN JWTError
    ELSE [sub |-> token.sub]

\* ------------------------------------------------------------------------
\* Tables
\* ------------------------------------------------------------------------
Suburb(gid) == IF gid % 2 = 1 THEN "North" ELSE "South"

\* around Point(151.2, -33.8)
PointOf(gid) == Point(1209600 + 8 * gid, -270400 - 3 * gid)

\* a three-vertex line of length 8 whose midpoint by path length is not the
\* average of its end points
LineOf(gid) ==
    LineString(<<Point(1208000 + gid, -270400), Point(1208002 + gid, -270400),
                 Point(1208002 + gid, -270394)>>)

ManholeRow(gid, geom) ==
    [gid |-> gid, geom |-> geom, suburb |-> Suburb(gid), status |-> "OK",
     notes |-> NULL, image_path |-> NULL_PATH]

\* a stored plus_code column, when the table has one
StaleCode == <<"S", "T", "A", "L", "E">>
WithColumn(row, col, val) ==
    [c \in DOMAIN row \cup {col} |-> IF c = col THEN val ELSE row[c]]

PipeRow(gid, geom) == [gid |-> gid, geom |-> geom, material |-> "PVC"]

MH == <<"M", "H">>
MaintenanceRows ==
    <<[asset_type |-> MH, asset_id |-> <<"1">>, work |-> "flushed"],
      [asset_type |-> <<"P">>, asset_id |-> <<"1">>, work |-> "relined"],
      [asset_type |-> MH, asset_id |-> <<"1">>, work |-> "inspected"]>>

UserRow(email) == [email |-> email]
NoUser == [email |-> NULL]

\* what the request in flight may still change
Snapshot == [manholes |-> manholes, favorites |-> favorites, files |-> files]

NoFiles == [p \in {} |-> <<>>]

\* the sections of the aggregate response, in the order they are run
Sections == <<"manholes", "pipes", "favorites", "dashboard_stats">>
NoneTried == [s \in {Sections[k] : k \in 1..Len(Sections)} |-> NotRun]
NoReq == [op |-> "none"]

InitRequest ==
    /\ pc = "idle"
    /\ req = NoReq
    /\ current_user = NoUser
    /\ resp = NoResp
    /\ nvalidate = 0
    /\ nquery = 0
    /\ uout = NotRun
    /\ qout = NotRun
    /\ written = {}
    /\ tried = NoneTried

\* what is the same in every database the service is started against
InitFixed ==
    /\ users = {UserRow(Alice)}
    /\ maintenance = MaintenanceRows
    /\ favorites = <<>>
    /\ added = {}
    /\ files = NoFiles
    /\ pre = [manholes |-> manholes, favorites |-> favorites, files |-> files]
    /\ InitRequest

\* a database in which every second manhole has no geometry and the last
\* pipe may have none
Init ==
    /\ manholes = [i \in 1..NumManholes |->
                      ManholeRow(i, IF i % 2 = 0 THEN NoneGeom ELSE PointOf(i))]
    /\ \E last \in {NoneGeom, LineOf(NumPipes)} :
         pipes = [i \in 1..NumPipes |->
                     PipeRow(i, IF i = NumPipes THEN last ELSE LineOf(i))]
    /\ InitFixed

\* a database for the endpoints that read no pipe geometry
InitFav == Init /\ pipes[NumPipes].geom # NoneGeom

\* ------------------------------------------------------------------------
\* A request arrives
\* ------------------------------------------------------------------------
Receive(R) ==
    /\ pc \in {"idle", "done"}
    /\ \E r \in R : req' = r
    /\ pc' = "auth"
    /\ current_user' = NoUser
    /\ resp' = NoResp
    /\ pre' = Snapshot
    /\ nvalidate' = 0
    /\ nquery' = 0
    /\ uout' = NotRun
    /\ qout' = NotRun
    /\ UNCHANGED <<tables, files, written, added, tried>>

\* ------------------------------------------------------------------------
\* def get_current_user(token), the dependency of every endpoint but /token
\* ------------------------------------------------------------------------
credentials_exception == HTTPException(401, "Could not validate credentials")
\* an exception no handler catches: the framework answers 500
InternalServerError == HTTPException(500, "Internal Server Error")

IsUser(r) == "email" \in DOMAIN r

\* payload.get("sub") of a token that decodes, None otherwise: the email the
\* SELECT is run for
subject(token) ==
    LET payload == jwt_decode(token)
    IN  IF payload = JWTError THEN NULL ELSE payload.sub

\* engine.execute(SELECT * FROM users WHERE email = :email).fetchone()
fetch_user(email) == IF UserRow(email) \in users THEN UserRow(email) ELSE NoUser

\* get_current_user without `if user is None: raise credentials_exception`
checked_unguarded(row) == row

\* what get_current_user returns or raises once its SELECT gave `row`
checked(row) == IF row = NoUser THEN credentials_exception ELSE row

get_current_user ==
    /\ pc = "auth"
    /\ nvalidate' = nvalidate + 1
    /\ \E result \in
          IF subject(req.token) = NULL
          THEN {<<NotRun, credentials_exception>>}
          ELSE {<<OK, checked(fetch_user(subject(req.token)))>>}
               \cup {<<e, InternalServerError>> : e \in DbErrors} :
         /\ uout' = result[1]
         /\ IF IsUser(result[2])
            THEN /\ current_user' = result[2]
                 /\ pc' = "run"
                 /\ resp' = resp
            ELSE /\ current_user' = current_user
                 /\ pc' = "done"
                 /\ resp' = result[2]
    /\ UNCHANGED <<tables, files, req, pre, nquery, qout, written, added, tried>>

\* ------------------------------------------------------------------------
\* The read endpoints
\* ------------------------------------------------------------------------
\* the handler's statement ended with `out`, the response is sent and the
\* request is over
Finish(response, out) ==
    /\ resp' = response
    /\ pc' = "done"
    /\ nquery' = nquery + 1
    /\ qout' = out
    /\ UNCHANGED <<req, current_user, pre, nvalidate, uout>>

Running(op) == pc = "run" /\ req.op = op

\* lambda line: get_plus_code(line.interpolate(0.5, normalized=True)); None
\* has no attribute interpolate
AttributeError == <<"AttributeError">>
pipe_plus_code(line) ==
    IF line = NoneGeom THEN AttributeError
    ELSE get_plus_code(interpolate_half(line))

\* gdf['geom']
geom_column(gdf) == [i \in 1..Len(gdf) |-> gdf[i].geom]

\* gdf['geom'].apply(get_plus_code)
apply_get_plus_code(series) == [i \in 1..Len(series) |-> get_plus_code(series[i])]

\* gdf['geom'].apply(lambda line: ...)
apply_pipe_plus_code(series) == [i \in 1..Len(series) |-> pipe_plus_code(series[i])]

\* Series.apply raises what the function raises on any element
apply_raises(series) == \E i \in 1..Len(series) : series[i] = AttributeError

\* the column is set only where the frame has none
setitem_if_missing(gdf, series) ==
    [i \in 1..Len(gdf) |->
        IF "plus_code" \in DOMAIN gdf[i] THEN gdf[i]
        ELSE WithColumn(gdf[i], "plus_code", series[i])]

\* gdf['plus_code'] = series: the column is set on every row, added when the
\* frame has none, replaced when it has one
setitem_plus_code(gdf, series) ==
    [i \in 1..Len(gdf) |-> WithColumn(gdf[i], "plus_code", series[i])]

\* gdf['plus_code'] = gdf['geom'].apply(get_plus_code)
with_plus_code(gdf) == setitem_plus_code(gdf, apply_get_plus_code(geom_column(gdf)))

\* gdf['plus_code'] = gdf['geom'].apply(lambda line: ...)
with_midpoint_code(gdf) == setitem_plus_code(gdf, apply_pipe_plus_code(geom_column(gdf)))

\* gdf.to_json(): one GeoJSON feature per row, the geometry column apart from
\* the other columns
to_json(gdf) ==
    [i \in 1..Len(gdf) |->
        [id |-> i - 1,
         properties |-> [c \in DOMAIN gdf[i] \ {"geom"} |-> gdf[i][c]],
         geometry |-> gdf[i].geom]]

\* @app.get("/manholes")
get_manholes ==
    /\ Running("get_manholes")
    /\ \E out \in DbOutcomes :
         IF out = OK
         THEN Finish([code |-> 200,
                      json |-> to_json(with_plus_code(manholes))], OK)
         ELSE Finish(HTTPException(500, out), out)
    /\ UNCHANGED <<tables, files, written, added, tried>>

\* @app.get("/pipes")
get_pipes ==
    /\ Running("get_pipes")
    /\ \E out \in DbOutcomes :
         IF out # OK THEN Finish(HTTPException(500, out), out)
         ELSE IF apply_raises(apply_pipe_plus_code(geom_column(pipes)))
         THEN Finish(HTTPException(500, NoInterpolate), out)
         ELSE Finish([code |-> 200,
                      json |-> to_json(with_midpoint_code(pipes))], OK)
    /\ UNCHANGED <<tables, files, written, added, tried>>

\* ST_DWithin(geom::geography, point::geography, radius): NULL, hence not
\* selected, for a NULL geom; the distance is taken in the model's units along
\* the axes
ST_DWithin(geom, lon, lat, radius) ==
    /\ geom # NoneGeom
    /\ Abs(geom.x - lon) + Abs(geom.y - lat) <= radius

\* ST_AsText(geom)
ST_AsText(geom) == <<"POINT", geom.x, geom.y>>

\* SELECT *, ST_AsText(geom) as geom_wkt FROM waste_water_manhole WHERE ST_DWithin(...)
search_query(lat, lon, radius) ==
    LET Near(row) == ST_DWithin(row.geom, lon, lat, radius)
        hits == SelectSeq(manholes, Near)
    IN  [i \in 1..Len(hits) |-> WithColumn(hits[i], "geom_wkt", ST_AsText(hits[i].geom))]

\* @app.get("/manholes/search")
search_manholes ==
    /\ Running("search_manholes")
    /\ \E out \in DbOutcomes :
         IF out = OK
         THEN Finish([code |-> 200,
                      json |-> to_json(with_plus_code(
                                  search_query(req.lat, req.lon, req.radius)))], OK)
         ELSE Finish(HTTPException(500, out), out)
    /\ UNCHANGED <<tables, files, written, added, tried>>

\* @app.get("/maintenance/{asset_type}/{asset_id}")
get_maintenance ==
    /\ Running("get_maintenance")
    /\ \E out \in DbOutcomes :
         IF out = OK
         THEN LET Match(row) == /\ row.asset_type = upper(req.asset_type)
                                /\ row.asset_id = req.asset_id
              IN  Finish([code |-> 200, records |-> SelectSeq(maintenance, Match)], OK)
         ELSE Finish(HTTPException(500, out), out)
    /\ UNCHANGED <<tables, files, written, added, tried>>

\* SELECT suburb, COUNT(*), SUM(CASE WHEN status='Needs Maintenance' ...) GROUP BY suburb
stats_query ==
    LET Of(s) == {i \in 1..Len(manholes) : manholes[i].suburb = s}
    IN  {[suburb |-> s,
          total_manholes |-> Cardinality(Of(s)),
          needs_maintenance |->
              Cardinality({i \in Of(s) : manholes[i].status = "Needs Maintenance"})]
         : s \in {manholes[i].suburb : i \in 1..Len(manholes)}}

\* @app.get("/dashboard/stats")
dashboard_stats ==
    /\ Running("dashboard_stats")
    /\ \E out \in DbOutcomes :
         IF out = OK
         THEN Finish([code |-> 200, stats |-> stats_query], OK)
         ELSE Finish(HTTPException(500, out), out)
    /\ UNCHANGED <<tables, files, written, added, tried>>

\* ------------------------------------------------------------------------
\* Favorites
\* ------------------------------------------------------------------------
FavoriteRow(user_id, asset_type, asset_id) ==
    [user_id |-> user_id, asset_type |-> asset_type, asset_id |-> asset_id]

\* INSERT INTO favorites(user_id, asset_type, asset_id) VALUES(...) ON CONFLICT
\* DO NOTHING, the three columns being the table's key: a row that is already
\* there is not inserted again
insert_favorite(table, row) ==
    IF \E i \in 1..Len(table) : table[i] = row THEN table ELSE Append(table, row)

\* @app.post("/favorites")
add_favorite ==
    /\ Running("add_favorite")
    /\ \E out \in DbOutcomes :
         IF out = OK
         THEN /\ favorites' = insert_favorite(favorites,
                     FavoriteRow(req.user_id, upper(req.asset_type), req.asset_id))
              /\ added' = added \cup {<<req.user_id, req.asset_type, req.asset_id>>}
              /\ Finish([code |-> 200, status |-> "success"], OK)
         ELSE /\ UNCHANGED <<favorites, added>>
              /\ Finish(HTTPException(500, out), out)
    /\ UNCHANGED <<users, manholes, pipes, maintenance, files, written, tried>>

\* @app.get("/favorites/{user_id}")
get_favorites ==
    /\ Running("get_favorites")
    /\ \E out \in DbOutcomes :
         IF out = OK
         THEN LET Mine(row) == row.user_id = req.user_id
              IN  Finish([code |-> 200, records |-> SelectSeq(favorites, Mine)], OK)
         ELSE Finish(HTTPException(500, out), out)
    /\ UNCHANGED <<tables, files, written, added, tried>>

\* ------------------------------------------------------------------------
\* Image upload
\* ------------------------------------------------------------------------
filepath == filepath_of(req.asset_id, req.filename)

WriteFile(path, bytes) ==
    [p \in DOMAIN files \cup {path} |-> IF p = path THEN bytes ELSE files[p]]

\* a handler raises before its statement: except Exception answers 500
Raise(detail) ==
    /\ resp' = HTTPException(500, detail)
    /\ pc' = "done"
    /\ UNCHANGED <<req, current_user, pre, nvalidate, nquery, uout, qout>>

\* UPDATE waste_water_manhole SET image_path = :path WHERE gid = :asset_id
set_image_path(table, path, gid) ==
    [i \in 1..Len(table) |->
        IF table[i].gid = gid THEN [table[i] EXCEPT !.image_path = path] ELSE table[i]]

\* upload_image with the UPDATE moved in front of the file write
upload_open_after_update ==
    /\ Running("upload_image")
    /\ PgInt(req.asset_id) >= 0
    /\ manholes' = set_image_path(manholes, filepath, PgInt(req.asset_id))
    /\ files' = WriteFile(filepath, <<>>)
    /\ pc' = "opened"
    /\ UNCHANGED <<req, current_user, resp, pre, nvalidate, nquery, uout, qout>>
    /\ UNCHANGED <<users, pipes, maintenance, favorites, written, added, tried>>

\* with open(filepath, "wb") as f: the file is created, or emptied when it exists
upload_open ==
    /\ Running("upload_image")
    /\ \/ /\ files' = WriteFile(filepath, <<>>)
          /\ pc' = "opened"
          /\ UNCHANGED <<req, current_user, resp, pre, nvalidate, nquery, uout, qout>>
       \/ /\ \E e \in DiskErrors : Raise(e)
          /\ files' = files
    /\ UNCHANGED <<tables, written, added, tried>>

\* f.write(file.file.read())
upload_write ==
    /\ pc = "opened"
    /\ \/ /\ files' = WriteFile(filepath, req.bytes)
          /\ written' = written \cup {filepath}
          /\ pc' = "written"
          /\ UNCHANGED <<req, current_user, resp, pre, nvalidate, nquery, uout, qout>>
       \/ /\ \E e \in DiskErrors : Raise(e)
          /\ UNCHANGED <<files, written>>
    /\ UNCHANGED <<tables, added, tried>>

\* engine.execute(UPDATE ...) and the return of upload_image
upload_update ==
    /\ pc = "written"
    /\ \E out \in DbOutcomes :
         IF out # OK
         THEN /\ manholes' = manholes
              /\ Finish(HTTPException(500, out), out)
         ELSE IF PgInt(req.asset_id) < 0
         THEN /\ manholes' = manholes
              /\ Finish(HTTPException(500, InvalidInt), InvalidInt)
         ELSE /\ manholes' = set_image_path(manholes, filepath, PgInt(req.asset_id))
              /\ Finish([code |-> 200, status |-> "success", file_path |-> filepath], OK)
    /\ UNCHANGED <<users, pipes, maintenance, favorites, files, written, added, tried>>

\* ------------------------------------------------------------------------
\* Manhole update
\* ------------------------------------------------------------------------
\* data.get(key)
dict_get(data, key) == IF key \in DOMAIN data THEN data[key] ELSE NULL

\* the UPDATE without its WHERE clause
set_status_notes_everywhere(table, status, notes, gid) ==
    [i \in 1..Len(table) |-> [table[i] EXCEPT !.status = status, !.notes = notes]]

\* UPDATE waste_water_manhole SET status = :status, notes = :notes WHERE gid = :asset_id
set_status_notes(table, status, notes, gid) ==
    [i \in 1..Len(table) |->
        IF table[i].gid = gid
        THEN [table[i] EXCEPT !.status = status, !.notes = notes]
        ELSE table[i]]

\* update_manhole with `except Exception: pass` before the return
update_manhole_swallow ==
    /\ Running("update_manhole")
    /\ \E out \in DbOutcomes :
         /\ manholes' = IF out = OK
                        THEN set_status_notes(manholes, dict_get(req.data, "status"),
                                              dict_get(req.data, "notes"), req.gid)
                        ELSE manholes
         /\ Finish([code |-> 200, status |-> "success"], out)
    /\ UNCHANGED <<users, pipes, maintenance, favorites, files, written, added, tried>>

\* @app.put("/manholes/{asset_id}"), asset_id: int
update_manhole ==
    /\ Running("update_manhole")
    /\ \E out \in DbOutcomes :
         IF out = OK
         THEN /\ manholes' = set_status_notes(manholes, dict_get(req.data, "status"),
                                              dict_get(req.data, "notes"), req.gid)
              /\ Finish([code |-> 200, status |-> "success"], OK)
         ELSE /\ manholes' = manholes
              /\ Finish(HTTPException(500, out), out)
    /\ UNCHANGED <<users, pipes, maintenance, favorites, files, written, added, tried>>

\* ------------------------------------------------------------------------
\* Requests
\* ------------------------------------------------------------------------
\* operations without parameters
Plain(ops, T) == {[op |-> o, token |-> t] : o \in ops, t \in T}

MaintenanceRequests(T, types, ids) ==
    {[op |-> "get_maintenance", token |-> t, asset_type |-> ty, asset_id |-> id]
     : t \in T, ty \in types, id \in ids}

SearchRequests(T, centers, radii) ==
    {[op |-> "search_manholes", token |-> t, lat |-> c.y, lon |-> c.x, radius |-> r]
     : t \in T, c \in centers, r \in radii}

AddFavoriteRequests(T, uids, types, ids) ==
    {[op |-> "add_favorite", token |-> t, user_id |-> u, asset_type |-> ty, asset_id |-> id]
     : t \in T, u \in uids, ty \in types, id \in ids}

GetFavoritesRequests(T, uids) ==
    {[op |-> "get_favorites", token |-> t, user_id |-> u] : t \in T, u \in uids}

UploadRequests(T, ids, names, contents) ==
    {[op |-> "upload_image", token |-> t, asset_id |-> id, filename |-> n, bytes |-> b]
     : t \in T, id \in ids, n \in names, b \in contents}

\* asset_id: int is the field gid of the request
UpdateRequests(T, gids, dicts) ==
    {[op |-> "update_manhole", token |-> t, gid |-> g, data |-> d]
     : t \in T, g \in gids, d \in dicts}

\* request bodies of update_manhole: both keys, one of them, neither
Dicts ==
    {[status |-> "Needs Maintenance", notes |-> "blocked"], [status |-> "OK"],
     [notes |-> "blocked"], [comment |-> "none of the two"]}

mh == <<"m", "h">>
Mh == <<"M", "h">>

AllRequests ==
    Plain({"get_manholes", "get_pipes", "dashboard_stats"}, Tokens)
    \cup MaintenanceRequests(Tokens, {mh, <<"P">>}, {<<"1">>})
    \cup SearchRequests(Tokens, {PointOf(1)}, {0, 100})
    \cup AddFavoriteRequests(Tokens, {"u1"}, {mh}, {<<"1">>})
    \cup GetFavoritesRequests(Tokens, {"u1", "u2"})
    \cup UploadRequests(Tokens, {<<"1">>, <<"x">>}, {<<"a">>}, {<<7>>})
    \cup UpdateRequests(Tokens, {1, NumManholes + 1}, {[status |-> "Needs Maintenance"]})

\* ------------------------------------------------------------------------
\* The service: every endpoint of src/app.py behind get_current_user
\* ------------------------------------------------------------------------
Next ==
    \/ Receive(AllRequests)
    \/ get_current_user
    \/ get_manholes
    \/ get_pipes
    \/ get_maintenance
    \/ search_manholes
    \/ add_favorite
    \/ get_favorites
    \/ dashboard_stats
    \/ upload_open
    \/ upload_write
    \/ upload_update
    \/ update_manhole

Spec == Init /\ [][Next]_vars

\* ------------------------------------------------------------------------
\* The favorites endpoints alone, for two users and asset types in every
\* letter case
\* ------------------------------------------------------------------------
FavTokens == {GoodToken, GarbageToken}
FavUsers == {"u1", "u2"}
FavTypes == {mh, Mh, <<"p">>}

FavRequests ==
    AddFavoriteRequests(FavTokens, FavUsers, FavTypes, {<<"1">>})
    \cup GetFavoritesRequests(FavTokens, FavUsers)

NextFav ==
    \/ Receive(FavRequests)
    \/ get_current_user
    \/ add_favorite
    \/ get_favorites

\* ------------------------------------------------------------------------
\* The endpoints that derive plus codes, over every choice of which rows have
\* a geometry, for tables with and without a plus_code column of their own
\* ------------------------------------------------------------------------
Stored(row, col) == IF col THEN WithColumn(row, "plus_code", StaleCode) ELSE row

InitRead ==
    /\ \E g \in [1..NumManholes -> BOOLEAN], h \in [1..NumPipes -> BOOLEAN], col \in BOOLEAN :
         /\ manholes = [i \in 1..NumManholes |->
                Stored(ManholeRow(i, IF g[i] THEN PointOf(i) ELSE NoneGeom), col)]
         /\ pipes = [i \in 1..NumPipes |->
                Stored(PipeRow(i, IF h[i] THEN LineOf(i) ELSE NoneGeom), col)]
    /\ InitFixed

ReadTokens == {GoodToken, ExpiredToken}

ReadRequests ==
    Plain({"get_manholes", "get_pipes"}, ReadTokens)
    \cup SearchRequests(ReadTokens, {PointOf(1)}, {0, 11})

NextRead ==
    \/ Receive(ReadRequests)
    \/ get_current_user
    \/ get_manholes
    \/ get_pipes
    \/ search_manholes

SpecRead == InitRead /\ [][NextRead]_vars

\* ------------------------------------------------------------------------
\* The two endpoints that write waste_water_manhole, for request bodies with
\* and without each key, an asset id that is no integer and a gid no row has
\* ------------------------------------------------------------------------
WriteTokens == {GoodToken, NoSubToken}

WriteRequests ==
    UploadRequests(WriteTokens, {<<"1">>, <<"x">>}, {<<"a">>}, {<<7>>})
    \cup UpdateRequests(WriteTokens, {1, NumManholes + 1}, Dicts)

NextWrite ==
    \/ Receive(WriteRequests)
    \/ get_current_user
    \/ upload_open
    \/ upload_write
    \/ upload_update
    \/ update_manhole

SpecWrite == InitFav /\ [][NextWrite]_vars

SpecFav == InitFav /\ [][NextFav]_vars

\* ------------------------------------------------------------------------
\* The aggregate operation, aggregate(user_id?) -> AggregateResponse: four
\* sections run one after the other, each under its own try/except.  A
\* section is the query and the assembly of the endpoint of the same name.
\* ------------------------------------------------------------------------
ErrorKey ==
    [manholes |-> "manholes_error", pipes |-> "pipes_error",
     favorites |-> "favorites_error", dashboard_stats |-> "dashboard_stats_error"]

\* the response with one more key
Store(key, value) ==
    resp' = [k \in DOMAIN resp \cup {key} |-> IF k = key THEN value ELSE resp[k]]

\* the failure is swallowed and nothing is recorded for the section
forget_failure(section, detail) == resp' = resp

\* on failure: the textual description goes under <section>_error
record_failure(section, detail) == Store(ErrorKey[section], detail)

\* on success: the produced list goes under the section's key
record_data(section, list) == Store(section, list)

\* a section has run; `out` is how its query ended
Proceed(section, out, next) ==
    /\ pc' = next
    /\ tried' = [tried EXCEPT ![section] = out]
    /\ nquery' = IF out = NotRun THEN nquery ELSE nquery + 1
    /\ UNCHANGED <<tables, files, req, current_user, pre, nvalidate, uout, qout,
                   written, added>>

AggregateUsers == {NULL, "u1", "u2"}

\* the call arrives
aggregate ==
    /\ pc \in {"idle", "done"}
    /\ \E u \in AggregateUsers : req' = [op |-> "aggregate", user_id |-> u]
    /\ resp' = [code |-> 200]
    /\ pc' = "manholes"
    /\ tried' = NoneTried
    /\ pre' = Snapshot
    /\ nquery' = 0
    /\ UNCHANGED <<tables, files, current_user, nvalidate, uout, qout, written, added>>

section_manholes ==
    /\ pc = "manholes"
    /\ \E out \in DbOutcomes :
         /\ IF out = OK
            THEN record_data("manholes", with_plus_code(manholes))
            ELSE record_failure("manholes", out)
         /\ Proceed("manholes", out, "pipes")

section_pipes ==
    /\ pc = "pipes"
    /\ \E out \in DbOutcomes :
         /\ IF out # OK THEN record_failure("pipes", out)
            ELSE IF apply_raises(apply_pipe_plus_code(geom_column(pipes)))
            THEN record_failure("pipes", NoInterpolate)
            ELSE record_data("pipes", with_midpoint_code(pipes))
         /\ Proceed("pipes", out, "favorites")

\* the favorites section that runs its query also without a user identifier
section_favorites_unconditional ==
    /\ pc = "favorites"
    /\ \E out \in DbOutcomes :
         /\ IF out = OK
            THEN LET Mine(row) == row.user_id = req.user_id
                 IN  record_data("favorites", SelectSeq(favorites, Mine))
            ELSE record_failure("favorites", out)
         /\ Proceed("favorites", out, "dashboard_stats")

\* skipped, with an empty list, when no user identifier is supplied
section_favorites ==
    /\ pc = "favorites"
    /\ IF req.user_id = NULL
       THEN /\ record_data("favorites", <<>>)
            /\ Proceed("favorites", NotRun, "dashboard_stats")
       ELSE \E out \in DbOutcomes :
              /\ IF out = OK
                 THEN LET Mine(row) == row.user_id = req.user_id
                      IN  record_data("favorites", SelectSeq(favorites, Mine))
                 ELSE record_failure("favorites", out)
              /\ Proceed("favorites", out, "dashboard_stats")

section_dashboard_stats ==
    /\ pc = "dashboard_stats"
    /\ \E out \in DbOutcomes :
         /\ IF out = OK
            THEN record_data("dashboard_stats", stats_query)
            ELSE record_failure("dashboard_stats", out)
         /\ Proceed("dashboard_stats", out, "done")

\* a database with and without favorites; the last pipe may have no geometry
InitAgg ==
    /\ manholes = [i \in 1..NumManholes |->
                      ManholeRow(i, IF i % 2 = 0 THEN NoneGeom ELSE PointOf(i))]
    /\ \E last \in {NoneGeom, LineOf(NumPipes)} :
         pipes = [i \in 1..NumPipes |->
                     PipeRow(i, IF i = NumPipes THEN last ELSE LineOf(i))]
    /\ \E calls \in SUBSET {<<"u1", MH, <<"1">>>>} :
         /\ added = calls
         /\ favorites = IF calls = {} THEN <<>>
                        ELSE <<FavoriteRow("u1", MH, <<"1">>)>>
    /\ users = {UserRow(Alice)}
    /\ maintenance = MaintenanceRows
    /\ files = NoFiles
    /\ pre = [manholes |-> manholes, favorites |-> favorites, files |-> files]
    /\ InitRequest

NextAgg ==
    \/ aggregate
    \/ section_manholes
    \/ section_pipes
    \/ section_favorites
    \/ section_dashboard_stats

SpecAgg == InitAgg /\ [][NextAgg]_vars

\* ========================================================================
\* Properties
\* ========================================================================
\* the four ways a bearer token is rejected: it does not decode, it is expired,
\* it carries no sub, its sub has no row in users
Rejected(token) ==
    \/ token.sig # "good"
    \/ token.exp = "past"
    \/ token.sub = NULL
    \/ UserRow(token.sub) \notin users

\* no operation query, no favorites insert, no manhole update, no file written
NoEffects == nquery = 0 /\ qout = NotRun /\ Snapshot = pre

InOperation == pc \in {"run", "opened", "written"}

\* the operation runs only with an identity get_current_user has validated
GatedByIdentity ==
    (InOperation \/ ~NoEffects) =>
        /\ ~Rejected(req.token)
        /\ current_user \in users
        /\ current_user.email = req.token.sub

\* validation happens once per request and before the operation's first effect
ValidatedOnceFirst ==
    /\ pc = "auth" => nvalidate = 0 /\ NoEffects
    /\ pc \in {"run", "opened", "written", "done"} => nvalidate = 1

\* C6 as stated: a gated request either runs its operation with a validated
\* identity or never reaches it; a rejected token always ends the request with
\* 401 and without any effect of the operation; validation happens once and
\* first.
C6_AsStated ==
    /\ GatedByIdentity
    /\ ValidatedOnceFirst
    /\ (pc = "done" /\ Rejected(req.token)) => (resp.code = 401 /\ NoEffects)

\* C6 amended: as C6, but a rejected token ends the request with 401 only when
\* get_current_user's own SELECT did not raise; when that SELECT raises the
\* request ends with the framework's 500, for any token, and still without
\* any effect of the operation.
C6_Gate ==
    /\ GatedByIdentity
    /\ ValidatedOnceFirst
    /\ (pc = "done" /\ Rejected(req.token) /\ uout \notin DbErrors) =>
           (resp = credentials_exception /\ NoEffects)
    /\ (pc = "done" /\ uout \in DbErrors) =>
           (resp = InternalServerError /\ NoEffects)

\* an upload with a token whose email has no users row was turned away
C6_Witness ==
    /\ pc = "done"
    /\ req.op = "upload_image"
    /\ req.token = GhostToken
    /\ uout = OK
    /\ resp.code = 401
    /\ DOMAIN files # {}

Operations ==
    {"get_manholes", "get_pipes", "get_maintenance", "search_manholes", "add_favorite",
     "get_favorites", "dashboard_stats", "upload_image", "update_manhole"}

\* C7: when the statement of a single-section operation raises, the request
\* ends with exactly the response 500 whose detail is the failure's message,
\* the statement was handed to the engine once, and no success payload is sent.
C7_OpaqueFailure ==
    (pc = "done" /\ qout \notin {NotRun, OK}) =>
        /\ req.op \in Operations
        /\ resp = HTTPException(500, qout)
        /\ nquery = 1

\* the UPDATE of update_manhole raised
C7_Witness ==
    /\ pc = "done"
    /\ req.op = "update_manhole"
    /\ qout \in DbErrors
    /\ resp.code = 500

\* ------------------------------------------------------------------------
\* upload_image and update_manhole
\* ------------------------------------------------------------------------
Ended(op) == pc = "done" /\ req.op = op /\ nvalidate = 1 /\ IsUser(current_user)

\* every image_path names a file upload_image has finished writing
PathsWritten ==
    \A i \in 1..Len(manholes) :
        manholes[i].image_path # NULL_PATH =>
            /\ manholes[i].image_path \in written
            /\ manholes[i].image_path \in DOMAIN files

\* success is answered only after the file write and the UPDATE both completed
SuccessAfterBoth ==
    (Ended("upload_image") /\ resp.code = 200) =>
        /\ filepath \in written
        /\ files[filepath] = req.bytes
        /\ qout = OK
        /\ resp.file_path = filepath
        /\ \A i \in 1..Len(manholes) :
              manholes[i].gid = PgInt(req.asset_id) => manholes[i].image_path = filepath

\* C8 as stated: image_path names a written file, success comes after both
\* steps, and an upload_image that ends with an error leaves the stored
\* files and every image_path as they were before the request.
C8_AsStated ==
    /\ PathsWritten
    /\ SuccessAfterBoth
    /\ (Ended("upload_image") /\ resp.code # 200) =>
           (files = pre.files /\ manholes = pre.manholes)

\* C8 amended: image_path names a written file, success comes after both
\* steps, and an upload_image that ends with an error leaves every manhole
\* row and every file but the one at the request's own path as they were;
\* the file at that path may have been created, emptied or overwritten.
C8_UploadOrder ==
    /\ PathsWritten
    /\ SuccessAfterBoth
    /\ (Ended("upload_image") /\ resp.code # 200) =>
           /\ manholes = pre.manholes
           /\ DOMAIN files \subseteq DOMAIN pre.files \cup {filepath}
           /\ \A p \in DOMAIN pre.files : p # filepath => files[p] = pre.files[p]

\* the UPDATE of an upload raised after the file was written: the file is new
\* on disk, image_path is as before
C8_Witness ==
    /\ Ended("upload_image")
    /\ qout \in DbErrors
    /\ filepath \in written
    /\ filepath \notin DOMAIN pre.files
    /\ \E i \in 1..Len(manholes) : manholes[i].image_path # NULL_PATH

\* C9: a successful update_manhole sets status and notes of the rows whose gid
\* is asset_id to data's values, None for a missing key, and leaves every
\* other column of those rows, every other row, the other tables and the
\* files unchanged; with no such row the table is unchanged; either way the
\* answer is {"status": "success"}.
C9_UpdateFrame ==
    (Ended("update_manhole") /\ qout = OK) =>
        /\ resp = [code |-> 200, status |-> "success"]
        /\ Len(manholes) = Len(pre.manholes)
        /\ \A i \in 1..Len(manholes) :
              LET old == pre.manholes[i]
                  new == manholes[i]
              IN  IF old.gid = req.gid
                  THEN /\ DOMAIN new = DOMAIN old
                       /\ new.status = (IF "status" \in DOMAIN req.data
                                        THEN req.data.status ELSE NULL)
                       /\ new.notes = (IF "notes" \in DOMAIN req.data
                                       THEN req.data.notes ELSE NULL)
                       /\ \A c \in DOMAIN old \ {"status", "notes"} : new[c] = old[c]
                  ELSE new = old
        /\ (\A i \in 1..Len(pre.manholes) : pre.manholes[i].gid # req.gid) =>
              manholes = pre.manholes
        /\ favorites = pre.favorites
        /\ files = pre.files

\* an update without the key notes reset the notes of a manhole that has an
\* image and a geometry, next to a row it did not touch
C9_Witness ==
    /\ Ended("update_manhole")
    /\ qout = OK
    /\ "notes" \notin DOMAIN req.data
    /\ \E i \in 1..Len(manholes) :
         /\ manholes[i].gid = req.gid
         /\ pre.manholes[i].notes # NULL
         /\ manholes[i].notes = NULL
         /\ manholes[i].image_path # NULL_PATH
         /\ manholes[i].geom # NoneGeom
    /\ \E i \in 1..Len(manholes) : manholes[i].gid # req.gid

\* an update for a gid no row has
C9_WitnessNoRow ==
    /\ Ended("update_manhole")
    /\ qout = OK
    /\ \A i \in 1..Len(manholes) : manholes[i].gid # req.gid

\* ------------------------------------------------------------------------
\* Favorites
\* ------------------------------------------------------------------------
IsLower(c) == \E i \in 1..Len(LOWER) : LOWER[i] = c

\* the same character up to letter case
SameLetter(c, d) ==
    c = d \/ \E i \in 1..Len(LOWER) : {c, d} = {LOWER[i], UPPER[i]}

\* the same string up to letter case
SameText(a, b) ==
    Len(a) = Len(b) /\ \A k \in 1..Len(a) : SameLetter(a[k], b[k])

\* the row a call (user_id, asset_type, asset_id) stands for
Stands(row, call) ==
    /\ row.user_id = call[1]
    /\ SameText(row.asset_type, call[2])
    /\ row.asset_id = call[3]

Call == <<req.user_id, req.asset_type, req.asset_id>>

GeoOperations == {"get_manholes", "search_manholes", "get_pipes"}

\* the records the operation's SELECT gave
Selected ==
    CASE req.op = "get_manholes" -> manholes
      [] req.op = "get_pipes" -> pipes
      [] req.op = "search_manholes" -> search_query(req.lat, req.lon, req.radius)

\* the columns of a returned record, and the value of one of them
Columns(feature) == DOMAIN feature.properties \cup {"geom"}
Value(feature, c) == IF c = "geom" THEN feature.geometry ELSE feature.properties[c]

\* the point whose code the operation derives
Coded(geom) ==
    IF geom = NoneGeom THEN NoneGeom
    ELSE IF req.op = "get_pipes" THEN interpolate_half(geom) ELSE geom

\* C4: whenever the SELECT of get_manholes, search_manholes or get_pipes
\* succeeds the operation succeeds, returns every selected record, and a
\* record carries a plus_code if and only if its geometry is not null.
C4_AsStated ==
    (pc = "done" /\ req.op \in GeoOperations /\ qout = OK) =>
        /\ resp.code = 200
        /\ Len(resp.json) = Len(Selected)
        /\ \A k \in 1..Len(resp.json) :
              (resp.json[k].properties.plus_code # NoneCode)
                  <=> (resp.json[k].geometry # NoneGeom)

\* C5 as stated: the assignment of plus_code keeps the number and the order
\* of the records, gives every record exactly one column more, plus_code,
\* and keeps every column the record had, whatever the record's shape.
C5_AsStated ==
    (pc = "done" /\ req.op \in GeoOperations /\ qout = OK) =>
        /\ resp.code = 200
        /\ Len(resp.json) = Len(Selected)
        /\ \A k \in 1..Len(resp.json) :
              /\ "plus_code" \in Columns(resp.json[k])
              /\ Cardinality(Columns(resp.json[k])) = Cardinality(DOMAIN Selected[k]) + 1
              /\ \A c \in DOMAIN Selected[k] : Value(resp.json[k], c) = Selected[k][c]

\* get_pipes selected a record without geometry
NullLine == req.op = "get_pipes" /\ \E i \in 1..Len(pipes) : pipes[i].geom = NoneGeom

\* C5 amended: the assignment keeps the number and the order of the records;
\* the columns of a returned record are those it had and plus_code, which is
\* one column more only for a record that had no plus_code; plus_code is the
\* derived code, also where the record had a plus_code of its own; every
\* other column keeps its value.  In get_pipes the assignment raises when a
\* record has no geometry, and the request ends with 500.
C5_Assembly ==
    (pc = "done" /\ req.op \in GeoOperations /\ qout = OK) =>
        IF NullLine THEN resp = HTTPException(500, NoInterpolate)
        ELSE /\ resp.code = 200
             /\ Len(resp.json) = Len(Selected)
             /\ \A k \in 1..Len(resp.json) :
                   /\ Columns(resp.json[k]) = DOMAIN Selected[k] \cup {"plus_code"}
                   /\ resp.json[k].properties.plus_code
                         = get_plus_code(Coded(Selected[k].geom))
                   /\ \A c \in DOMAIN Selected[k] \ {"plus_code"} :
                         Value(resp.json[k], c) = Selected[k][c]

\* get_manholes returned two or more records of a table that has a plus_code
\* column, the first with a geometry: its stored code was replaced
C5_Witness ==
    /\ Ended("get_manholes")
    /\ qout = OK
    /\ Len(resp.json) >= 2
    /\ "plus_code" \in DOMAIN manholes[1]
    /\ manholes[1].geom # NoneGeom
    /\ resp.json[1].properties.plus_code # manholes[1].plus_code
    /\ resp.json[1].properties.gid = manholes[1].gid

\* ------------------------------------------------------------------------
\* The aggregate operation
\* ------------------------------------------------------------------------
SectionNames == {Sections[k] : k \in 1..Len(Sections)}
Returned == pc = "done" /\ req.op = "aggregate"
Has(key) == key \in DOMAIN resp

\* C1: in every combination of failing and succeeding section queries, a
\* section whose query fails is recorded as that failure's text under
\* <section>_error and has no <section> key, and every section whose query
\* succeeds is returned under its own key; every section is run, but for
\* favorites without a user identifier.
C1_AsStated ==
    Returned =>
        \A s \in SectionNames :
            /\ tried[s] \in DbErrors =>
                  (Has(ErrorKey[s]) /\ ~Has(s) /\ resp[ErrorKey[s]] = tried[s])
            /\ tried[s] = OK => (Has(s) /\ ~Has(ErrorKey[s]))
            /\ tried[s] = NotRun => (s = "favorites" /\ req.user_id = NULL)

\* the sections that have run when the call is at `at`
Before(at) ==
    IF at = "done" THEN SectionNames
    ELSE {Sections[k] : k \in {k \in 1..Len(Sections) :
                                 \E j \in 1..Len(Sections) : Sections[j] = at /\ k < j}}

\* C2: whatever section queries fail, the aggregate call is never answered
\* with an error: it goes from section to section and ends with a 200
\* response in which each of the four sections has exactly one of its data
\* key and its <section>_error key.
C2_Total ==
    req.op = "aggregate" =>
        /\ pc \in SectionNames \cup {"done"}
        /\ resp.code = 200
        /\ \A s \in Before(pc) : Has(s) # Has(ErrorKey[s])
        /\ \A s \in SectionNames \ Before(pc) : ~Has(s) /\ ~Has(ErrorKey[s])

\* all four section queries failed
C2_Witness ==
    /\ Returned
    /\ \A s \in SectionNames : tried[s] \in DbErrors /\ Has(ErrorKey[s])

\* C3: without a user identifier the favorites section issues no query and
\* the response has favorites = [] and no favorites_error; a failed favorites
\* query shows as favorites_error without favorites.
C3_NoUser ==
    /\ (Returned /\ req.user_id = NULL) =>
          /\ tried["favorites"] = NotRun
          /\ nquery = Len(Sections) - 1
          /\ Has("favorites")
          /\ resp["favorites"] = <<>>
          /\ ~Has("favorites_error")
    /\ (Returned /\ tried["favorites"] \in DbErrors) =>
          /\ req.user_id # NULL
          /\ Has("favorites_error")
          /\ ~Has("favorites")

\* a call without user identifier returned while the table has favorites
C3_Witness ==
    /\ Returned
    /\ req.user_id = NULL
    /\ favorites # <<>>
    /\ resp["favorites"] = <<>>
    /\ Has("manholes")
====
